---- MODULE Spec2Model ----
(***************************************************************************)
(* Model of benchmark-your-db (QATCH): the SQLite connector's schema       *)
(* abstraction, the SELECT checklist generator and the generator           *)
(* orchestrator.                                                           *)
(*                                                                         *)
(* Conventions.  Python None is the string "None" where a string is        *)
(* expected and the empty sequence where a list is expected.  A Python     *)
(* dict is a sequence of [key, value] records in insertion order.  Column  *)
(* names are sequences of one-character strings so that str.lower() and    *)
(* the substring test can be computed.  A reference to a ConnectorTable    *)
(* object is the table's name: the objects live in tbl_name2table.         *)
(***************************************************************************)
EXTENDS Integers, Sequences, FiniteSets, TLC

VARIABLES
    db,                 \* tables held by the SQLite file: sequence of [name, origin]
    tables,             \* __init__ argument tables: [given, names]
    table2primary_key,  \* __init__ argument table2primary_key is truthy
    reflected,          \* names in self.metadata.tables after __init__
    init_exc,           \* how __init__ ended: "pending", "ok", or the error raised
    metadata,           \* self.metadata.tables of a constructed connector
    tbl_name2table,     \* what load_tables_from_database returned
    loaded,             \* load_tables_from_database has returned
    seed,               \* the seed argument of the generators' constructors
    random_state,       \* state of the process-wide random module
    tests,              \* what SelectGenerator.template_generator returned
    gen_exc,            \* "pending", "ok", or the exception a generator raised
    generator_names,    \* OrchestratorGenerator argument: [given, names]
    tbl_names,          \* generate_dataset argument tbl_names: [given, names]
    graph,              \* node names of the compiled graph, in registration order
    ctor_exc,           \* how OrchestratorGenerator.__init__ ended
    invoked,            \* generators whose graph_call has run
    dataset,            \* what generate_dataset returned: [columns, rows]
    run_exc             \* how generate_dataset ended

vars == <<db, tables, table2primary_key, reflected, init_exc, metadata,
          tbl_name2table, loaded, seed, random_state, tests, gen_exc,
          generator_names, tbl_names, graph, ctor_exc, invoked, dataset, run_exc>>

connVars == <<db, tables, table2primary_key, reflected, init_exc>>
loadVars == <<metadata, tbl_name2table, loaded>>
selVars  == <<seed, random_state, tests, gen_exc>>
orchVars == <<generator_names, tbl_names, graph, ctor_exc, invoked, dataset, run_exc>>

(***************************************************************************)
(* Bounds of the model.                                                    *)
(***************************************************************************)
MaxTables == 2
MaxFks == 2
MaxRows == 2
MaxNames == 2
RngMod == 8

(***************************************************************************)
(* Generic helpers: sequences and insertion-ordered dicts.                 *)
(***************************************************************************)
Range(s) == {s[i] : i \in DOMAIN s}

SeqsUpTo(S, n) == UNION {[1..k -> S] : k \in 0..n}

Injective(s) == \A i, j \in DOMAIN s : s[i] = s[j] => i = j

RECURSIVE Concat(_)
Concat(ss) == IF ss = <<>> THEN <<>> ELSE Head(ss) \o Concat(Tail(ss))

Keys(d) == {d[i].key : i \in DOMAIN d}

HasKey(d, k) == \E i \in DOMAIN d : d[i].key = k

Get(d, k) == d[CHOOSE i \in DOMAIN d : d[i].key = k].value

\* d[k] = v on a Python dict: an existing key keeps its position
DictSet(d, k, v) ==
    IF HasKey(d, k)
    THEN [i \in DOMAIN d |-> IF d[i].key = k THEN [key |-> k, value |-> v] ELSE d[i]]
    ELSE Append(d, [key |-> k, value |-> v])

\* the enumerations of a finite set: the orders a Python set may iterate in
Orderings(S) == {s \in [1..Cardinality(S) -> S] : Range(s) = S}

(***************************************************************************)
(* Column names and str.lower().                                           *)
(***************************************************************************)
LowerChar(c) ==
    CASE c = "I" -> "i"
      [] c = "D" -> "d"
      [] c = "U" -> "u"
      [] OTHER -> c

Lower(name) == [i \in DOMAIN name |-> LowerChar(name[i])]

\* the Python test  'id' in s
ContainsId(s) == \E i \in 1..(Len(s) - 1) : s[i] = "i" /\ s[i + 1] = "d"

(***************************************************************************)
(* SqliteConnector: reading the reflected schema.                          *)
(***************************************************************************)
SampleLimit == 5

convert_sqlalchemy_type_to_string(type_) ==
    CASE type_ = "String" -> "categorical"
      [] type_ \in {"Numeric", "Integer"} -> "numerical"
      [] OTHER -> "None"

ColIndex(tbl, col_name) == CHOOSE i \in DOMAIN tbl.columns : tbl.columns[i].name = col_name

ColumnValues(tbl, col_name) == [r \in DOMAIN tbl.rows |-> tbl.rows[r][ColIndex(tbl, col_name)]]

RECURSIVE Distinct(_)
Distinct(s) ==
    IF s = <<>> THEN <<>>
    ELSE LET init == Distinct(SubSeq(s, 1, Len(s) - 1))
             last == s[Len(s)]
         IN IF last \in Range(init) THEN init ELSE Append(init, last)

Limit(s, n) == SubSeq(s, 1, IF Len(s) < n THEN Len(s) ELSE n)

_sample_data_from_col(col_name, type_, tbl) ==
    IF type_ = "categorical"
    THEN Limit(Distinct(ColumnValues(tbl, col_name)), SampleLimit)
    ELSE Limit(ColumnValues(tbl, col_name), SampleLimit)

ConnectorTableColumn(name, type_string, tbl) ==
    [column_name |-> name,
     column_type |-> type_string,
     sample_data |-> _sample_data_from_col(name, type_string, tbl)]

RECURSIVE ColumnsMetadataFrom(_, _)
ColumnsMetadataFrom(tbl, i) ==
    IF i > Len(tbl.columns) THEN <<>>
    ELSE LET col == tbl.columns[i]
             type_string == convert_sqlalchemy_type_to_string(col.type)
             rest == ColumnsMetadataFrom(tbl, i + 1)
         IN IF type_string = "None" THEN rest
            ELSE <<[key |-> col.name,
                    value |-> ConnectorTableColumn(col.name, type_string, tbl)]>> \o rest

get_columns_metadata_from(tbl) == ColumnsMetadataFrom(tbl, 1)

_extract_primary_key(tbl) ==
    [i \in DOMAIN tbl.primary_key |->
        LET name == tbl.primary_key[i]
            col == tbl.columns[ColIndex(tbl, name)]
        IN ConnectorTableColumn(name, convert_sqlalchemy_type_to_string(col.type), tbl)]

FilterType(col2metadata, type_string) ==
    SelectSeq(col2metadata, LAMBDA e : e.value.column_type = type_string)

\* the dict comprehension over tbl.foreign_keys, visited in the order fks
RECURSIVE RawForeignKeys(_)
RawForeignKeys(fks) ==
    IF fks = <<>> THEN <<>>
    ELSE LET fk == fks[Len(fks)]
         IN DictSet(RawForeignKeys(SubSeq(fks, 1, Len(fks) - 1)),
                    fk.target_table, fk.target_column)

_create_connector_table_from(tbl, fks) ==
    LET tbl_col2metadata == get_columns_metadata_from(tbl)
    IN [tbl_name |-> tbl.name,
        tbl_col2metadata |-> tbl_col2metadata,
        cat_col2metadata |-> FilterType(tbl_col2metadata, "categorical"),
        num_col2metadata |-> FilterType(tbl_col2metadata, "numerical"),
        primary_key |-> _extract_primary_key(tbl),
        foreign_keys |-> RawForeignKeys(fks)]

\* new_foreign_key[foreign_key_col] = tbl_name2table[foreign_key_tbl]
RECURSIVE ResolveForeignKeys(_)
ResolveForeignKeys(raw) ==
    IF raw = <<>> THEN <<>>
    ELSE LET e == raw[Len(raw)]
         IN DictSet(ResolveForeignKeys(SubSeq(raw, 1, Len(raw) - 1)), e.value, e.key)

_update_foreign_key(name2table) ==
    [i \in DOMAIN name2table |->
        [key |-> name2table[i].key,
         value |-> [f \in DOMAIN name2table[i].value |->
                        IF f = "foreign_keys"
                        THEN ResolveForeignKeys(name2table[i].value.foreign_keys)
                        ELSE name2table[i].value[f]]]]

\* fk_order[i] is the order in which table i's set of foreign keys is visited
load_tables_from_database(md, fk_order) ==
    _update_foreign_key(
        [i \in DOMAIN md |->
            [key |-> md[i].name,
             value |-> _create_connector_table_from(md[i], fk_order[i])]])

FkOrders(md) ==
    {o \in [DOMAIN md -> UNION {Orderings(md[i].foreign_keys) : i \in DOMAIN md}] :
        \A i \in DOMAIN md : o[i] \in Orderings(md[i].foreign_keys)}

(***************************************************************************)
(* Reflected schemas the connector is run on.                              *)
(***************************************************************************)
TableNames == <<"t1", "t2", "t3">>

SqlTypes == {"String", "Integer", "LargeBinary"}

ColId == <<"i", "d">>
ColRef == <<"r", "e", "f">>

NoGenerators == [given |-> TRUE, names |-> <<>>]
NoTblNames == [given |-> FALSE, names |-> <<>>]

\* every foreign key a schema over the tables ns can declare
FkUniverse(ns) ==
    [table : ns, parent : {ColId, ColRef}, target_table : ns, target_column : {ColId, ColRef}]

FkSets(ns) == {Range(s) : s \in SeqsUpTo(FkUniverse(ns), MaxFks)}

SchemaTable(name, types, pk, fks, rows) ==
    [name |-> name,
     columns |-> <<[name |-> ColId, type |-> types[1]], [name |-> ColRef, type |-> types[2]]>>,
     primary_key |-> pk,
     foreign_keys |-> {[parent |-> fk.parent, target_table |-> fk.target_table,
                        target_column |-> fk.target_column] : fk \in {f \in fks : f.table = name}},
     rows |-> rows]

\* the orders in which reflection may list up to MaxTables tables
TableOrders ==
    {s \in SeqsUpTo({TableNames[i] : i \in 1..MaxTables}, MaxTables) :
        s # <<>> /\ Injective(s)}

LoadRows == {<<>>, <<<<"u", "u">>>>}

InitIdle ==
    /\ db = <<>> /\ tables = [given |-> FALSE, names |-> <<>>]
    /\ table2primary_key = FALSE /\ reflected = {} /\ init_exc = "pending"

InitNoRun ==
    /\ seed = 0 /\ random_state = 0 /\ tests = <<>> /\ gen_exc = "pending"

InitNoOrch ==
    /\ generator_names = NoGenerators /\ tbl_names = NoTblNames /\ graph = <<>>
    /\ ctor_exc = "pending" /\ invoked = <<>>
    /\ dataset = [columns |-> {}, rows |-> <<>>] /\ run_exc = "pending"

InitLoad ==
    /\ \E order \in TableOrders :
       \E types \in [Range(order) -> [1..2 -> SqlTypes]] :
       \E pk \in [Range(order) -> {<<>>, <<ColId>>}] :
       \E fks \in FkSets(Range(order)) :
       \E rows \in LoadRows :
          metadata = [i \in DOMAIN order |->
                        SchemaTable(order[i], types[order[i]], pk[order[i]], fks, rows)]
    /\ tbl_name2table = <<>>
    /\ loaded = FALSE
    /\ InitIdle /\ InitNoRun /\ InitNoOrch

\* SqliteConnector.load_tables_from_database
LoadTables ==
    /\ ~loaded
    /\ \E fk_order \in FkOrders(metadata) :
          tbl_name2table' = load_tables_from_database(metadata, fk_order)
    /\ loaded' = TRUE
    /\ UNCHANGED <<metadata, connVars, selVars, orchVars>>

NextLoad == LoadTables

SpecLoad == InitLoad /\ [][NextLoad]_vars

(***************************************************************************)
(* C1 and C10: the schema load_tables_from_database returns.               *)
(***************************************************************************)
ColumnNamesOf(table) == Keys(table.tbl_col2metadata)

\* C1: after load_tables_from_database every declared foreign key
\* local_column -> target_table.target_column has an entry keyed by
\* local_column in the table's resolved foreign_keys, whose value is the table
\* named target_table, which has the column target_column.
C1_ForeignKeyRoundTrip ==
    loaded =>
        \A i \in DOMAIN metadata : \A fk \in metadata[i].foreign_keys :
            LET resolved == Get(tbl_name2table, metadata[i].name).foreign_keys
            IN /\ HasKey(resolved, fk.parent)
               /\ HasKey(tbl_name2table, Get(resolved, fk.parent))
               /\ Get(tbl_name2table, Get(resolved, fk.parent)).tbl_name = fk.target_table
               /\ fk.target_column \in
                    ColumnNamesOf(Get(tbl_name2table, Get(resolved, fk.parent)))

\* C10: in every table schema returned, no column of unknown type class is in
\* all_columns, categorical_columns, numerical_columns or primary_key, and the
\* categorical and numerical columns are disjoint subsets of all_columns.
C10_NoUnknownColumns ==
    loaded =>
        \A i \in DOMAIN tbl_name2table :
            LET t == tbl_name2table[i].value
                known(d) == \A j \in DOMAIN d : d[j].value.column_type # "None"
            IN /\ known(t.tbl_col2metadata)
               /\ known(t.cat_col2metadata)
               /\ known(t.num_col2metadata)
               /\ \A j \in DOMAIN t.primary_key : t.primary_key[j].column_type # "None"
               /\ Keys(t.cat_col2metadata) \cap Keys(t.num_col2metadata) = {}
               /\ Keys(t.cat_col2metadata) \cup Keys(t.num_col2metadata)
                     \subseteq Keys(t.tbl_col2metadata)

(***************************************************************************)
(* SqliteConnector.__init__                                                *)
(***************************************************************************)
ExistingNames == <<"t1", "t2", "t3">>
SuppliedNames == <<"t1", "table", "t2", "t3">>

\* if name == 'table': name = 'my_table'
StoredName(name) == IF name = "table" THEN "my_table" ELSE name

\* table.to_sql(name, ..., if_exists='replace') and, with primary keys, the
\* CREATE TABLE followed by to_sql(..., if_exists='append'): the file then holds
\* one table of that name, filled from the frame
ToSql(file, name, origin, with_pk) ==
    SelectSeq(file, LAMBDA t : t.name # name)
        \o <<[name |-> name, origin |-> origin, primary_key |-> with_pk]>>

RECURSIVE _set_tables_in_db(_, _, _)
_set_tables_in_db(file, names, with_pk) ==
    IF names = <<>> THEN file
    ELSE _set_tables_in_db(ToSql(file, StoredName(Head(names)), Head(names), with_pk),
                           Tail(names), with_pk)

\* metadata.reflect(engine): the names of the tables the file holds
Reflect(file) == {file[i].name : i \in DOMAIN file}

\* a dict argument is truthy when it is given and not empty
Truthy(arg) == arg.given /\ arg.names # <<>>

SqliteConnector_init_created_anyway(file, tbls, with_pk) ==
    IF ~Truthy(tbls) /\ Reflect(file) = {}
    THEN [exc |-> "SchemaEmpty", db |-> file, reflected |-> Reflect(file)]
    ELSE IF Truthy(tbls)
    THEN LET created == _set_tables_in_db(file, tbls.names, with_pk)
         IN [exc |-> "ok", db |-> created, reflected |-> Reflect(created)]
    ELSE [exc |-> "ok", db |-> file, reflected |-> Reflect(file)]

\* the four branches of __init__; the two ValueErrors are told apart by message
SqliteConnector_init(file, tbls, with_pk) ==
    IF Reflect(file) # {} /\ Truthy(tbls)
    THEN [exc |-> "SchemaConflict", db |-> file, reflected |-> Reflect(file)]
    ELSE IF Reflect(file) = {} /\ ~Truthy(tbls)
    THEN [exc |-> "SchemaEmpty", db |-> file, reflected |-> Reflect(file)]
    ELSE IF Reflect(file) = {} /\ Truthy(tbls)
    THEN LET created == _set_tables_in_db(file, tbls.names, with_pk)
         IN [exc |-> "ok", db |-> created, reflected |-> Reflect(created)]
    ELSE [exc |-> "ok", db |-> file, reflected |-> Reflect(file)]

InitNoLoad == metadata = <<>> /\ tbl_name2table = <<>> /\ loaded = FALSE

InitConn ==
    /\ \E existing \in {s \in SeqsUpTo({ExistingNames[i] : i \in 1..MaxNames}, MaxNames) :
                            Injective(s)} :
          db = [i \in DOMAIN existing |->
                    [name |-> existing[i], origin |-> "file", primary_key |-> FALSE]]
    /\ tables \in
          {[given |-> FALSE, names |-> <<>>]}
              \cup {[given |-> TRUE, names |-> s] :
                      s \in {q \in SeqsUpTo({SuppliedNames[i] : i \in 1..(MaxNames + 1)},
                                            MaxNames) : Injective(q)}}
    /\ table2primary_key \in BOOLEAN
    /\ reflected = {}
    /\ init_exc = "pending"
    /\ InitNoLoad /\ InitNoRun /\ InitNoOrch

Construct ==
    /\ init_exc = "pending"
    /\ LET r == SqliteConnector_init(db, tables, table2primary_key)
       IN /\ init_exc' = r.exc
          /\ db' = r.db
          /\ reflected' = r.reflected
    /\ UNCHANGED <<tables, table2primary_key, loadVars, selVars, orchVars>>

NextConn == Construct

SpecConn == InitConn /\ [][NextConn]_vars

\* C5: constructing the connector has exactly four outcomes, decided by
\* whether the database already has tables and whether table data is supplied:
\* both -> schema-conflict error and no table created; neither -> schema-empty
\* error; data only -> the supplied tables are created and reflected; tables
\* only -> the existing tables are reflected and the database is unchanged.
C5_FourOutcomes ==
    [][(init_exc = "pending" /\ init_exc' # "pending") =>
        LET has_tables == db # <<>>
            supplied == Truthy(tables)
        IN /\ (has_tables /\ supplied) =>
                (init_exc' = "SchemaConflict" /\ db' = db)
           /\ (~has_tables /\ ~supplied) =>
                (init_exc' = "SchemaEmpty" /\ db' = db)
           /\ (~has_tables /\ supplied) =>
                /\ init_exc' = "ok"
                /\ {[name |-> db'[i].name, origin |-> db'[i].origin] : i \in DOMAIN db'}
                      = {[name |-> StoredName(tables.names[i]), origin |-> tables.names[i]] :
                            i \in DOMAIN tables.names}
                /\ reflected' = {StoredName(tables.names[i]) : i \in DOMAIN tables.names}
           /\ (has_tables /\ ~supplied) =>
                /\ init_exc' = "ok"
                /\ db' = db
                /\ reflected' = {db[i].name : i \in DOMAIN db}]_vars

\* a table named 'table' was supplied to an empty database and created
C5_Witness ==
    /\ init_exc = "ok"
    /\ \E i \in DOMAIN db : db[i].name = "my_table" /\ db[i].origin = "table"
    /\ "my_table" \in reflected

(***************************************************************************)
(* The process-wide random module: a seeded, deterministic generator.      *)
(* Every function that draws takes the state and returns the new state.    *)
(***************************************************************************)
random_seed(a) == a % RngMod

RandomStep(state) == (5 * state + 3) % RngMod

\* _randbelow(n), 0 <= value < n
randbelow(state, n) ==
    [state |-> RandomStep(state), value |-> (RandomStep(state) * n) \div RngMod]

\* random.sample(population, k): selection without replacement from a pool
RECURSIVE SampleFrom(_, _, _)
SampleFrom(pool, k, state) ==
    IF k = 0 THEN [state |-> state, value |-> <<>>]
    ELSE LET n == Len(pool)
             r == randbelow(state, n)
             j == r.value + 1
             moved == [i \in 1..(n - 1) |-> IF i = j THEN pool[n] ELSE pool[i]]
             rest == SampleFrom(moved, k - 1, r.state)
         IN [state |-> rest.state, value |-> <<pool[j]>> \o rest.value]

random_sample(population, k, state) == SampleFrom(population, k, state)

\* utils_list_sample(l, k): all of l, in order, when it has at most k elements,
\* otherwise k of them drawn without replacement
utils_list_sample(l, k, state) ==
    IF Len(l) <= k THEN [state |-> state, value |-> l]
    ELSE random_sample(l, k, state)

\* AbstractSqlGenerator.__init__: random.seed(seed)
AbstractSqlGenerator_init(a) == random_seed(a)

(***************************************************************************)
(* SelectGenerator                                                         *)
(***************************************************************************)
SampleK == 3

WhereCatOperations ==
    <<[op |-> "==", phrase |-> "is equal to"],
      [op |-> "!=", phrase |-> "is different from"],
      [op |-> "!=", phrase |-> "not equal to"]>>

WhereNumOperations ==
    <<[op |-> ">", phrase |-> "is greater than"],
      [op |-> "<", phrase |-> "is less than"]>>

SingleQA(table_name, col, operation, sample_element, quoted, sql_tag) ==
    [query |-> [select |-> "*", from |-> table_name, where |-> col,
                op |-> operation.op, literal |-> sample_element, quoted |-> quoted],
     question |-> [table |-> table_name, column |-> col,
                   phrase |-> operation.phrase, literal |-> sample_element],
     sql_tag |-> sql_tag]

\* for col in cols: for operation in operations: one (col, operation) pair
ColumnsTimesOperations(cols, operations) ==
    Concat([i \in DOMAIN cols |->
                [j \in DOMAIN operations |-> [col |-> cols[i], operation |-> operations[j]]]])

\* the two nested loops: one random.choice(metadata.sample_data) per pair;
\* random.choice raises IndexError on an empty sequence
RECURSIVE WhereTests(_, _, _, _, _)
WhereTests(pairs, table_name, quoted, sql_tag, state) ==
    IF pairs = <<>> THEN [state |-> state, tests |-> <<>>, exc |-> "ok"]
    ELSE LET p == Head(pairs)
             data == p.col.value.sample_data
         IN IF data = <<>>
            THEN [state |-> state, tests |-> <<>>, exc |-> "IndexError"]
            ELSE LET r == randbelow(state, Len(data))
                     rest == WhereTests(Tail(pairs), table_name, quoted, sql_tag, r.state)
                 IN [state |-> rest.state,
                     tests |-> IF rest.exc = "ok"
                               THEN <<SingleQA(table_name, p.col.key, p.operation,
                                               data[r.value + 1], quoted, sql_tag)>>
                                        \o rest.tests
                               ELSE <<>>,
                     exc |-> rest.exc]

test_where_cat(cat_cols, table_name, state) ==
    LET sampled == utils_list_sample(cat_cols, SampleK, state)
    IN WhereTests(ColumnsTimesOperations(sampled.value, WhereCatOperations),
                  table_name, TRUE, "WHERE-CAT", sampled.state)

test_where_num_case_sensitive(num_cols, table_name, state) ==
    LET sampled == utils_list_sample(num_cols, SampleK, state)
        kept == SelectSeq(sampled.value, LAMBDA e : ~ContainsId(e.key))
    IN WhereTests(ColumnsTimesOperations(kept, WhereNumOperations),
                  table_name, FALSE, "WHERE-NUM", sampled.state)

test_where_num(num_cols, table_name, state) ==
    LET sampled == utils_list_sample(num_cols, SampleK, state)
        kept == SelectSeq(sampled.value, LAMBDA e : ~ContainsId(Lower(e.key)))
    IN WhereTests(ColumnsTimesOperations(kept, WhereNumOperations),
                  table_name, FALSE, "WHERE-NUM", sampled.state)

\* tests += ...: the list is returned only when neither call raised
TestsPlus(cat, num) ==
    [state |-> num.state,
     tests |-> IF num.exc = "ok" THEN cat.tests \o num.tests ELSE <<>>,
     exc |-> num.exc]

WhereCatThenNum(table, cat) ==
    IF cat.exc # "ok" THEN cat
    ELSE TestsPlus(cat, test_where_num(table.num_col2metadata, table.tbl_name, cat.state))

SelectGenerator_template_generator(table, state) ==
    WhereCatThenNum(table, test_where_cat(table.cat_col2metadata, table.tbl_name, state))

(***************************************************************************)
(* SelectGenerator run on one loaded table.                                *)
(***************************************************************************)
SelectNames == <<ColId, <<"u", "I", "d">>, <<"d", "i">>, <<"a">>>>

GeneratorTypes == {"String", "Integer"}

\* the columns of a row that hold NULL: none, all, only the first, only the last
NullColumns(k) == {{}, 1..k, {1}, {k}}

RowWithNulls(k, nulls) == [c \in 1..k |-> IF c \in nulls THEN "None" ELSE "u"]

\* the columns picked from the pool, in the pool's order
PickColumns(picked, types) ==
    LET idx == SelectSeq([i \in DOMAIN SelectNames |-> i], LAMBDA i : i \in picked)
    IN [j \in DOMAIN idx |-> [name |-> SelectNames[idx[j]], type |-> types[idx[j]]]]

InitSelect ==
    /\ \E picked \in (SUBSET DOMAIN SelectNames) \ {{}} :
       \E types \in [picked -> GeneratorTypes] :
       \E n \in 0..MaxRows :
       \E nulls \in [1..n -> NullColumns(Cardinality(picked))] :
          metadata = <<[name |-> "t1", columns |-> PickColumns(picked, types),
                        primary_key |-> <<>>, foreign_keys |-> {},
                        rows |-> [r \in 1..n |->
                                    RowWithNulls(Cardinality(picked), nulls[r])]]>>
    /\ tbl_name2table = <<>>
    /\ loaded = FALSE
    /\ seed \in 0..(RngMod - 1)
    /\ random_state = AbstractSqlGenerator_init(seed)
    /\ tests = <<>>
    /\ gen_exc = "pending"
    /\ InitIdle /\ InitNoOrch

GenerateEnds(r) == tests' = r.tests /\ gen_exc' = r.exc /\ random_state' = r.state

\* SelectGenerator.template_generator(table) on the loaded table
Generate ==
    /\ loaded
    /\ gen_exc = "pending"
    /\ GenerateEnds(SelectGenerator_template_generator(tbl_name2table[1].value,
                                                       random_state))
    /\ UNCHANGED <<seed, connVars, loadVars, orchVars>>

NextSelect == LoadTables \/ Generate

SpecSelect == InitSelect /\ [][NextSelect]_vars

TheTable == tbl_name2table[1].value

Tagged(ts, tag) == SelectSeq(ts, LAMBDA t : t.sql_tag = tag)

Min(a, b) == IF a < b THEN a ELSE b

\* each selected column is crossed exactly once with each operation
CrossedOnce(ts, operations) ==
    \A c \in {ts[i].query.where : i \in DOMAIN ts} :
    \A j \in DOMAIN operations :
        Cardinality({i \in DOMAIN ts :
                        /\ ts[i].query.where = c
                        /\ ts[i].query.op = operations[j].op
                        /\ ts[i].question.phrase = operations[j].phrase}) = 1

\* C3: on a table with at least one categorical column, each with at least one
\* sampled value, SelectGenerator emits exactly 3 * min(3, number of
\* categorical columns) WHERE-CAT records, each selected column crossed once
\* with each of the three operators; on a table with no categorical column it
\* emits no WHERE-CAT record and does not raise.
C3_WhereCatCount ==
    gen_exc # "pending" =>
        LET cat == TheTable.cat_col2metadata
            got == Tagged(tests, "WHERE-CAT")
        IN /\ (cat # <<>> /\ \A i \in DOMAIN cat : cat[i].value.sample_data # <<>>) =>
                /\ gen_exc = "ok"
                /\ Len(got) = 3 * Min(3, Len(cat))
                /\ Cardinality({got[i].query.where : i \in DOMAIN got}) = Min(3, Len(cat))
                /\ {got[i].query.where : i \in DOMAIN got} \subseteq Keys(cat)
                /\ CrossedOnce(got, WhereCatOperations)
           /\ cat = <<>> => (gen_exc = "ok" /\ got = <<>>)

\* The same count, for the tables on which the generator returns.
C3_WhereCatCountWhenReturned ==
    gen_exc = "ok" =>
        LET cat == TheTable.cat_col2metadata
            got == Tagged(tests, "WHERE-CAT")
        IN /\ Len(got) = 3 * Min(3, Len(cat))
           /\ Cardinality({got[i].query.where : i \in DOMAIN got}) = Min(3, Len(cat))
           /\ {got[i].query.where : i \in DOMAIN got} \subseteq Keys(cat)
           /\ CrossedOnce(got, WhereCatOperations)

\* C4: every WHERE-NUM record is a predicate on a numerical column of the
\* table whose lower-cased name does not contain "id".
C4_NoIdInWhereNum ==
    gen_exc # "pending" =>
        \A i \in DOMAIN tests :
            tests[i].sql_tag = "WHERE-NUM" =>
                /\ tests[i].query.where \in Keys(TheTable.num_col2metadata)
                /\ ~ContainsId(Lower(tests[i].query.where))

\* WHERE-NUM records were emitted for a table that also has a numerical
\* column whose name contains "id" in mixed case
C4_Witness ==
    /\ gen_exc = "ok"
    /\ \E i \in DOMAIN tests : tests[i].sql_tag = "WHERE-NUM"
    /\ \E k \in Keys(TheTable.num_col2metadata) : ContainsId(Lower(k)) /\ ~ContainsId(k)
    /\ \E k \in Keys(TheTable.num_col2metadata) : ContainsId(k)

Missing(pool) == Range(pool) \subseteq {"None"}

\* C7: a column whose sample pool is empty or holds only missing values is
\* skipped: the generator does not raise, emits no record with a null literal
\* for that column, and still emits the records of the other selected columns.
C7_EmptyPoolSkipped ==
    gen_exc # "pending" =>
        LET cat == TheTable.cat_col2metadata
            num == TheTable.num_col2metadata
            eligible == SelectSeq(num, LAMBDA e : ~ContainsId(Lower(e.key)))
        IN /\ gen_exc = "ok"
           /\ \A i \in DOMAIN tests :
                Missing(Get(TheTable.tbl_col2metadata, tests[i].query.where).sample_data)
                    => tests[i].query.literal # "None"
           /\ Len(cat) <= SampleK =>
                \A j \in DOMAIN cat :
                    ~Missing(cat[j].value.sample_data) =>
                        \E i \in DOMAIN tests : tests[i].query.where = cat[j].key
           /\ Len(num) <= SampleK =>
                \A j \in DOMAIN eligible :
                    ~Missing(eligible[j].value.sample_data) =>
                        \E i \in DOMAIN tests : tests[i].query.where = eligible[j].key

(***************************************************************************)
(* The generators of name2generator.  SelectGenerator is modelled above;   *)
(* the others are modelled by their documented combinatorics.              *)
(***************************************************************************)
KnownGenerators ==
    <<"project", "distinct", "select", "simple", "orderby",
      "groupby", "having", "join", "many-to-many">>

\* the order in which node names sort
SortedGenerators ==
    <<"distinct", "groupby", "having", "join", "many-to-many",
      "orderby", "project", "select", "simple">>

Aggregations == <<"count", "sum", "avg", "min", "max">>

DefaultSeed == 2023

KeySeq(d) == [i \in DOMAIN d |-> d[i].key]

\* _comb_random(columns): [random.sample(columns, k) for k in 1..len(columns)]
RECURSIVE CombRandomFrom(_, _, _)
CombRandomFrom(columns, k, state) ==
    IF k > Len(columns) THEN [state |-> state, value |-> <<>>]
    ELSE LET one == random_sample(columns, k, state)
             rest == CombRandomFrom(columns, k + 1, one.state)
         IN [state |-> rest.state, value |-> <<one.value>> \o rest.value]

_comb_random(columns, state) == CombRandomFrom(columns, 1, state)

\* one record per drawn column combination
SubsetTests(columns, table_name, sql_tag, state) ==
    LET combs == _comb_random(columns, state)
    IN [state |-> combs.state,
        tests |-> [i \in DOMAIN combs.value |->
                     [query |-> [columns |-> combs.value[i], from |-> table_name],
                      question |-> [columns |-> combs.value[i], table |-> table_name],
                      sql_tag |-> sql_tag]],
        exc |-> "ok"]

\* one record per (column, keyword) pair
CrossTests(columns, keywords, table_name, sql_tag, state) ==
    LET pairs == Concat([i \in DOMAIN columns |->
                            [j \in DOMAIN keywords |-> <<columns[i], keywords[j]>>]])
    IN [state |-> state,
        tests |-> [i \in DOMAIN pairs |->
                     [query |-> [column |-> pairs[i][1], keyword |-> pairs[i][2],
                                 from |-> table_name],
                      question |-> [column |-> pairs[i][1], keyword |-> pairs[i][2],
                                    table |-> table_name],
                      sql_tag |-> sql_tag]],
        exc |-> "ok"]

test_name(name) ==
    CASE name = "project" -> "PROJECT"
      [] name = "distinct" -> "DISTINCT"
      [] name = "select" -> "SELECT"
      [] name = "simple" -> "SIMPLE-AGG"
      [] name = "orderby" -> "ORDERBY"
      [] name = "groupby" -> "GROUPBY"
      [] name = "having" -> "HAVING"
      [] name = "join" -> "JOIN"
      [] name = "many-to-many" -> "MANY-TO-MANY"

template_generator(name, table, state) ==
    CASE name = "select" -> SelectGenerator_template_generator(table, state)
      [] name = "project" ->
            SubsetTests(KeySeq(table.tbl_col2metadata), table.tbl_name, "PROJECT", state)
      [] name = "distinct" ->
            SubsetTests(KeySeq(table.cat_col2metadata), table.tbl_name, "DISTINCT", state)
      [] name = "orderby" ->
            CrossTests(KeySeq(table.tbl_col2metadata), <<"ASC", "DESC">>,
                       table.tbl_name, "ORDERBY", state)
      [] name \in {"simple", "groupby", "having"} ->
            CrossTests(KeySeq(table.num_col2metadata), Aggregations,
                       table.tbl_name, test_name(name), state)
      [] name \in {"join", "many-to-many"} ->
            CrossTests(KeySeq(table.foreign_keys), <<"JOIN">>,
                       table.tbl_name, test_name(name), state)

TestRecord(name, table_name, t) ==
    [db_path |-> "db.sqlite", db_id |-> "db", tbl_name |-> table_name,
     test_category |-> test_name(name),
     sql_tag |-> t.sql_tag, query |-> t.query, question |-> t.question]

\* BaseGenerator.graph_call: the generator's records for every table of
\* tbl_names, in that order; emitted[i] is what it emitted for tbl_names[i]
GraphCallExtend(name, table_name, one, rest) ==
    [state |-> rest.state,
     emitted |-> <<one.tests>> \o rest.emitted,
     generated_templates |->
        [i \in DOMAIN one.tests |-> TestRecord(name, table_name, one.tests[i])]
            \o rest.generated_templates,
     exc |-> rest.exc]

RECURSIVE graph_call(_, _, _, _)
GraphCallTable(name, database, names, one) ==
    IF one.exc # "ok"
    THEN [state |-> one.state, emitted |-> <<>>, generated_templates |-> <<>>,
          exc |-> one.exc]
    ELSE GraphCallExtend(name, Head(names), one,
                         graph_call(name, database, Tail(names), one.state))

graph_call(name, database, names, state) ==
    IF names = <<>>
    THEN [state |-> state, emitted |-> <<>>, generated_templates |-> <<>>, exc |-> "ok"]
    ELSE GraphCallTable(name, database, names,
                        template_generator(name, Get(database, Head(names)), state))

(***************************************************************************)
(* OrchestratorGenerator                                                   *)
(***************************************************************************)
DatasetColumns ==
    {"db_path", "db_id", "tbl_name", "test_category", "sql_tag", "query", "question"}

IsKnown(name) == name \in Range(KnownGenerators)

\* __init__: every name is looked up and its generator constructed (which
\* seeds the random module), then one node per name is added to the graph and
\* the graph is compiled.  add_node refuses a name already present and compile
\* refuses a graph with no edge from START: both raise ValueError.
OrchestratorGenerator_init_deduplicating(names_arg, state) ==
    LET names == IF names_arg.given THEN names_arg.names ELSE KnownGenerators
    IN IF \E i \in DOMAIN names : ~IsKnown(names[i])
       THEN [exc |-> "KeyError", graph |-> <<>>, state |-> state]
       ELSE [exc |-> IF names = <<>> THEN "ValueError" ELSE "ok",
             graph |-> Distinct(names),
             state |-> IF names = <<>> THEN state ELSE AbstractSqlGenerator_init(DefaultSeed)]

OrchestratorGenerator_init(names_arg, state) ==
    LET names == IF names_arg.given THEN names_arg.names ELSE KnownGenerators
        seeded == IF names # <<>> /\ IsKnown(names[1])
                  THEN AbstractSqlGenerator_init(DefaultSeed) ELSE state
    IN IF \E i \in DOMAIN names : ~IsKnown(names[i])
       THEN [exc |-> "KeyError", graph |-> <<>>, state |-> seeded]
       ELSE IF ~Injective(names) \/ names = <<>>
       THEN [exc |-> "ValueError", graph |-> <<>>, state |-> seeded]
       ELSE [exc |-> "ok", graph |-> names, state |-> seeded]

\* graph.invoke: every node's graph_call runs on the same input state; here
\* the nodes run one after the other in registration order
NodeResult(name, one) ==
    [name |-> name, emitted |-> one.emitted,
     generated_templates |-> one.generated_templates]

RunNodesExtend(result, rest) ==
    [state |-> rest.state, results |-> <<result>> \o rest.results, exc |-> rest.exc]

RECURSIVE RunNodes(_, _, _, _)
RunNode(nodes, database, names, one) ==
    IF one.exc # "ok"
    THEN [state |-> one.state, results |-> <<NodeResult(Head(nodes), one)>>,
          exc |-> one.exc]
    ELSE RunNodesExtend(NodeResult(Head(nodes), one),
                        RunNodes(Tail(nodes), database, names, one.state))

RunNodes(nodes, database, names, state) ==
    IF nodes = <<>> THEN [state |-> state, results |-> <<>>, exc |-> "ok"]
    ELSE RunNode(nodes, database, names, graph_call(Head(nodes), database, names, state))

\* the updates of the nodes of one step are added to generated_templates
\* either in registration order or in the order of the node names
MergeOrder(results, by_name) ==
    IF by_name
    THEN LET sorted == SelectSeq(SortedGenerators,
                                 LAMBDA n : \E i \in DOMAIN results : results[i].name = n)
         IN [k \in DOMAIN sorted |->
                results[CHOOSE i \in DOMAIN results : results[i].name = sorted[k]]]
    ELSE results

Merge(results, by_name) ==
    LET ordered == MergeOrder(results, by_name)
    IN Concat([i \in DOMAIN ordered |-> ordered[i].generated_templates])

\* pd.DataFrame(records): one column per key of the records
DataFrame(records) ==
    [columns |-> UNION {DOMAIN records[i] : i \in DOMAIN records}, rows |-> records]

\* dataset.loc[:, columns]
Loc(frame, columns) ==
    [columns |-> columns,
     rows |-> [i \in DOMAIN frame.rows |-> [c \in columns |-> frame.rows[i][c]]]]

EffectiveTblNames(names_arg, database) ==
    IF Truthy(names_arg) THEN names_arg.names ELSE KeySeq(database)

\* graph.invoke(...) and state['generated_templates']
Invoke(nodes, database, names_arg, state) ==
    RunNodes(nodes, database, EffectiveTblNames(names_arg, database), state)

Reversed(s) == [i \in DOMAIN s |-> s[Len(s) + 1 - i]]

ToDatasetReversed(frame) ==
    IF Len(frame.rows) > 0
    THEN [columns |-> DatasetColumns, rows |-> Reversed(Loc(frame, DatasetColumns).rows)]
    ELSE frame

\* the projection on the seven columns, made only when there are rows
ToDataset(frame) ==
    IF Len(frame.rows) > 0 THEN Loc(frame, DatasetColumns) ELSE frame

\* what generate_dataset returns, or the exception of the run
Returned(run, by_name) ==
    [state |-> run.state, results |-> run.results, exc |-> run.exc,
     dataset |-> IF run.exc # "ok" THEN [columns |-> {}, rows |-> <<>>]
                 ELSE ToDataset(DataFrame(Merge(run.results, by_name)))]

generate_dataset(nodes, database, names_arg, state, by_name) ==
    Returned(Invoke(nodes, database, names_arg, state), by_name)

(***************************************************************************)
(* The orchestrator run on a small database.                               *)
(***************************************************************************)
MaxGenerators == 2
MaxOrchTables == 2

GeneratorNamePool == {"select", "project", "orderby", "bogus"}

OrchTableShapes ==
    {[columns |-> <<[name |-> ColId, type |-> "Integer"]>>,
      rows |-> <<<<"u">>>>],
     [columns |-> <<[name |-> <<"a">>, type |-> "String"],
                    [name |-> <<"d", "i">>, type |-> "Integer"]>>,
      rows |-> <<>>],
     [columns |-> <<[name |-> <<"a">>, type |-> "String"],
                    [name |-> <<"d", "i">>, type |-> "Integer"]>>,
      rows |-> <<<<"u", "u">>, <<"None", "None">>>>]}

OrchTableOrders ==
    {s \in SeqsUpTo({TableNames[i] : i \in 1..MaxOrchTables}, MaxOrchTables) :
        s # <<>> /\ Injective(s)}

InitOrch ==
    /\ \E order \in OrchTableOrders :
       \E shape \in [Range(order) -> OrchTableShapes] :
          /\ metadata = [i \in DOMAIN order |->
                            [name |-> order[i], columns |-> shape[order[i]].columns,
                             primary_key |-> <<>>, foreign_keys |-> {},
                             rows |-> shape[order[i]].rows]]
          /\ tbl_names \in
                {NoTblNames} \cup
                {[given |-> TRUE, names |-> s] : s \in {Reversed(order), <<order[Len(order)]>>}}
    /\ generator_names \in
          {[given |-> FALSE, names |-> <<>>]} \cup
          {[given |-> TRUE, names |-> s] : s \in SeqsUpTo(GeneratorNamePool, MaxGenerators)}
    /\ tbl_name2table = <<>> /\ loaded = FALSE
    /\ seed = DefaultSeed /\ random_state = 0 /\ tests = <<>> /\ gen_exc = "pending"
    /\ graph = <<>> /\ ctor_exc = "pending" /\ invoked = <<>>
    /\ dataset = [columns |-> {}, rows |-> <<>>] /\ run_exc = "pending"
    /\ InitIdle

\* OrchestratorGenerator(generator_names)
ConstructOrchestrator ==
    /\ ctor_exc = "pending"
    /\ LET r == OrchestratorGenerator_init(generator_names, random_state)
       IN /\ ctor_exc' = r.exc
          /\ graph' = r.graph
          /\ random_state' = r.state
    /\ UNCHANGED <<connVars, loadVars, seed, tests, gen_exc,
                   generator_names, tbl_names, invoked, dataset, run_exc>>

RunEnds(database, r) ==
    /\ tbl_name2table' = database
    /\ loaded' = TRUE
    /\ random_state' = r.state
    /\ invoked' = [i \in DOMAIN r.results |->
                     [name |-> r.results[i].name, emitted |-> r.results[i].emitted]]
    /\ dataset' = r.dataset
    /\ run_exc' = r.exc

GenerateFrom(database, by_name) ==
    RunEnds(database, generate_dataset(graph, database, tbl_names, random_state, by_name))

\* orchestrator.generate_dataset(connector, tbl_names)
GenerateDataset ==
    /\ ctor_exc = "ok"
    /\ run_exc = "pending"
    /\ \E fk_order \in FkOrders(metadata) : \E by_name \in BOOLEAN :
          GenerateFrom(load_tables_from_database(metadata, fk_order), by_name)
    /\ UNCHANGED <<connVars, metadata, seed, tests, gen_exc,
                   generator_names, tbl_names, graph, ctor_exc>>

NextOrch == ConstructOrchestrator \/ GenerateDataset

SpecOrch == InitOrch /\ [][NextOrch]_vars

(***************************************************************************)
(* C2, C6, C8, C9: the orchestrator.                                       *)
(***************************************************************************)
Rows == dataset.rows

TargetTables == EffectiveTblNames(tbl_names, tbl_name2table)

TableIndex(r) == CHOOSE i \in DOMAIN TargetTables : TargetTables[i] = r.tbl_name

GeneratorIndex(r) == CHOOSE i \in DOMAIN graph : test_name(graph[i]) = r.test_category

Emission(r) == [sql_tag |-> r.sql_tag, query |-> r.query, question |-> r.question]

\* the rows of one generator for one table, as the generator emitted them
RowsOf(category, table_name) ==
    LET mine == SelectSeq(Rows, LAMBDA r : r.test_category = category
                                            /\ r.tbl_name = table_name)
    IN [i \in DOMAIN mine |-> Emission(mine[i])]

EmissionOrderKept ==
    \A k \in DOMAIN invoked : \A t \in DOMAIN TargetTables :
        RowsOf(test_name(invoked[k].name), TargetTables[t]) = invoked[k].emitted[t]

Generated == Concat([k \in DOMAIN invoked |-> Concat(invoked[k].emitted)])

\* C2: generate_dataset always returns, without raising, a dataset whose
\* columns are exactly the seven of DatasetColumns, with one row per generated
\* record; with no record generated it has zero rows and the same seven columns.
C2_SevenColumnsAlways ==
    run_exc # "pending" =>
        /\ run_exc = "ok"
        /\ dataset.columns = DatasetColumns
        /\ Len(Rows) = Len(Generated)

AllKnown(names) == \A i \in DOMAIN names : IsKnown(names[i])

\* C6 as stated: omitted names register all nine categories; a list registers
\* exactly the named categories; an unknown name makes construction fail with a
\* lookup error, no orchestrator is produced and no generator is invoked.
C6_AsStated ==
    ctor_exc # "pending" =>
        /\ ~generator_names.given => (ctor_exc = "ok" /\ graph = KnownGenerators)
        /\ (generator_names.given /\ AllKnown(generator_names.names)) =>
                (ctor_exc = "ok" /\ Range(graph) = Range(generator_names.names))
        /\ (generator_names.given /\ ~AllKnown(generator_names.names)) =>
                (ctor_exc = "KeyError" /\ graph = <<>> /\ invoked = <<>>)

\* C6, amended: omitted names register all nine categories; a non-empty list
\* of pairwise distinct known names registers exactly those, in that order; a
\* list with an unknown name fails with a lookup error; an empty list or a
\* list that repeats a known name fails with a value error; after a failed
\* construction no generator is invoked, and only registered generators are.
C6_RegisteredAtConstruction ==
    ctor_exc # "pending" =>
        /\ ~generator_names.given =>
                (ctor_exc = "ok" /\ graph = KnownGenerators /\ Len(graph) = 9)
        /\ (generator_names.given /\ AllKnown(generator_names.names)
               /\ generator_names.names # <<>> /\ Injective(generator_names.names)) =>
                (ctor_exc = "ok" /\ graph = generator_names.names)
        /\ (generator_names.given /\ AllKnown(generator_names.names)
               /\ (generator_names.names = <<>> \/ ~Injective(generator_names.names))) =>
                (ctor_exc = "ValueError" /\ graph = <<>>)
        /\ (generator_names.given /\ ~AllKnown(generator_names.names)) =>
                (ctor_exc = "KeyError" /\ graph = <<>>)
        /\ ctor_exc # "ok" => (invoked = <<>> /\ run_exc = "pending")
        /\ \A k \in DOMAIN invoked : invoked[k].name \in Range(graph)

\* two named generators were registered and both were invoked by a run
C6_Witness ==
    /\ ctor_exc = "ok" /\ generator_names.given /\ Len(graph) = 2
    /\ run_exc = "ok" /\ Len(invoked) = 2 /\ Rows # <<>>

SoloRun(name) ==
    LET built == OrchestratorGenerator_init([given |-> TRUE, names |-> <<name>>], 0)
    IN Invoke(built.graph, tbl_name2table, tbl_names, built.state).results[1].emitted

\* C9: for a fixed database and seed, what a generator emits for each table
\* is the same whichever other generators are selected and in whatever order
\* they are constructed and invoked.
C9_GeneratorsIndependent ==
    run_exc = "ok" =>
        \A k \in DOMAIN invoked : invoked[k].emitted = SoloRun(invoked[k].name)

====
